---- MODULE Spec2Model ----
(***************************************************************************)
(* Model of the info crate (src/src/lib.rs, src/build.rs): build-time      *)
(* capture (build_script), raw snapshot construction (raw_info!),          *)
(* validation (Info::new), rendering (Display for Info) and the lazily     *)
(* initialised static of lazy_info_str!.                                   *)
(*                                                                         *)
(* Text is a sequence of one-character strings, so that parsing,           *)
(* formatting and splitting are computed character by character.           *)
(***************************************************************************)
EXTENDS Integers, Sequences, FiniteSets, TLC

VARIABLES
    phase,      \* which stage of the build / run pipeline the program is in
    env,        \* environment of the consumer's build script: TARGET, PROFILE
    rustc,      \* per build script: outcome of rustc_version::version()
    out,        \* per build script: the cargo directives it printed
    bpanic,     \* per build script: its panic payload, or None
    pkgver,     \* CARGO_PKG_VERSION set by cargo for the consumer crate
    gitrev,     \* outcome of the compile-time git lookup of git_version!
    raw,        \* the RawInfo handed to Info::new, or None
    os,         \* what os_info::get() returns on the running host
    res,        \* outcome of Info::new(raw), or None
    rendered,   \* outcome of info.to_string(), or None
    siteRaw,    \* per expansion site of lazy_info_str!: the RawInfo compiled in
    cell,       \* per expansion site: the static INFO_STR (LazyLock<String>)
    pc,         \* per thread: position inside the access &*INFO_STR
    at,         \* per thread: the expansion site it is executing
    got,        \* per thread: what its current or last access returned, or None
    runs,       \* per expansion site: how many times the initialiser closure started
    touched,    \* the expansion sites some access has reached
    naccess     \* per thread: accesses started so far

vars == <<phase, env, rustc, out, bpanic, pkgver, gitrev, raw, os, res, rendered,
          siteRaw, cell, pc, at, got, runs, touched, naccess>>

buildVars == <<env, rustc, out, bpanic, pkgver, gitrev>>
infoVars  == <<raw, os, res, rendered>>
lazyVars  == <<siteRaw, cell, pc, at, got, runs, touched, naccess>>

None == [kind |-> "none"]

Some(x) == [kind |-> "some", v |-> x]

-----------------------------------------------------------------------------
(* Text helpers *)

DigitChars == <<"0", "1", "2", "3", "4", "5", "6", "7", "8", "9">>

Digits == {DigitChars[i] : i \in 1..10}

Letters == {"a","b","c","d","e","f","g","h","i","j","k","l","m","n","o","p","q",
            "r","s","t","u","v","w","x","y","z",
            "A","B","C","D","E","F","G","H","I","J","K","L","M","N","O","P","Q",
            "R","S","T","U","V","W","X","Y","Z"}

DigitVal(c) == (CHOOSE i \in 1..10 : DigitChars[i] = c) - 1

Drop(s, n) == SubSeq(s, n + 1, Len(s))

Take(s, n) == SubSeq(s, 1, n)

\* Length of the longest prefix of s whose characters are all in set cs.
RECURSIVE RunLen(_, _)
RunLen(s, cs) ==
    IF s # <<>> /\ s[1] \in cs THEN 1 + RunLen(Tail(s), cs) ELSE 0

\* Decimal value of a sequence of digit characters.
RECURSIVE ToNat(_)
ToNat(s) ==
    IF s = <<>> THEN 0 ELSE 10 * ToNat(Take(s, Len(s) - 1)) + DigitVal(s[Len(s)])

\* Decimal text of a natural number (Display for u64).
RECURSIVE NatText(_)
NatText(n) ==
    IF n < 10 THEN <<DigitChars[n + 1]>>
    ELSE NatText(n \div 10) \o <<DigitChars[(n % 10) + 1]>>

\* Index of the first occurrence of character c in s, or 0.
RECURSIVE IndexOf(_, _)
IndexOf(s, c) ==
    IF s = <<>> THEN 0
    ELSE IF s[1] = c THEN 1
    ELSE LET r == IndexOf(Tail(s), c) IN IF r = 0 THEN 0 ELSE r + 1

\* str::splitn(n, c): at most n pieces, the last one holding the rest.
RECURSIVE SplitN(_, _, _)
SplitN(s, n, c) ==
    LET i == IndexOf(s, c) IN
    IF n <= 1 \/ i = 0 THEN <<s>>
    ELSE <<Take(s, i - 1)>> \o SplitN(Drop(s, i), n - 1, c)

IsPrefix(p, s) == Len(p) <= Len(s) /\ Take(s, Len(p)) = p

-----------------------------------------------------------------------------
(* semver::Version, its parser and its Display *)

SemErr(kind, pos, ch) == [ok |-> FALSE, err |-> [kind |-> kind, pos |-> pos, ch |-> ch]]

\* semver parse.rs numeric_identifier: a run of digits without a leading zero.
NumericIdentifier(input, pos) ==
    LET n == RunLen(input, Digits) IN
    IF n = 0 THEN
        IF input = <<>> THEN SemErr("UnexpectedEnd", pos, "")
        ELSE SemErr("UnexpectedChar", pos, input[1])
    ELSE IF n > 1 /\ input[1] = "0" THEN SemErr("LeadingZero", pos, "")
    ELSE [ok |-> TRUE, value |-> ToNat(Take(input, n)), rest |-> Drop(input, n)]

\* semver parse.rs dot: the separator after major and after minor.
Dot(input, pos) ==
    IF input # <<>> /\ input[1] = "." THEN [ok |-> TRUE, rest |-> Tail(input)]
    ELSE IF input # <<>> THEN SemErr("UnexpectedCharAfter", pos, input[1])
    ELSE SemErr("UnexpectedEnd", pos, "")

\* semver parse.rs identifier: dot-separated segments of [0-9A-Za-z-]; acc is
\* the number of characters already accepted.
RECURSIVE Identifier(_, _, _)
Identifier(input, acc, pos) ==
    LET here == Drop(input, acc)
        seg  == RunLen(here, Digits \cup Letters \cup {"-"})
        atDot == Len(here) > seg /\ here[seg + 1] = "."
    IN
    IF seg = 0 THEN
        IF acc = 0 /\ ~atDot
        THEN [ok |-> TRUE, ident |-> <<>>, rest |-> input]
        ELSE SemErr("EmptySegment", pos, "")
    ELSE IF pos = "Pre" /\ seg > 1 /\ RunLen(here, Digits) >= seg /\ here[1] = "0"
    THEN SemErr("LeadingZero", pos, "")
    ELSE IF atDot THEN Identifier(input, acc + seg + 1, pos)
    ELSE [ok |-> TRUE, ident |-> Take(input, acc + seg), rest |-> Drop(input, acc + seg)]

\* The optional "-pre" or "+build" part introduced by character lead.
NonEmptyPart(r, pos) ==
    IF ~r.ok THEN r
    ELSE IF r.ident = <<>> THEN SemErr("EmptySegment", pos, "")
    ELSE [ok |-> TRUE, ident |-> r.ident, rest |-> r.rest, pos |-> pos]

OptionalPart(text, lead, pos) ==
    IF text # <<>> /\ text[1] = lead
    THEN NonEmptyPart(Identifier(Tail(text), 0, pos), pos)
    ELSE [ok |-> TRUE, ident |-> <<>>, rest |-> text, pos |-> "none"]

\* <semver::Version as FromStr>::from_str, one definition per step of the
\* function, last step first.  (Overflow of u64 needs a text of 20 digits and is
\* outside the texts considered here.)
ParseEnd(ma, mi, pa, pre, build) ==
    IF ~build.ok THEN build
    ELSE IF build.rest # <<>> THEN
        SemErr("UnexpectedCharAfter",
               IF build.pos # "none" THEN "Build"
               ELSE IF pre.pos # "none" THEN "Pre" ELSE "Patch",
               build.rest[1])
    ELSE [ok |-> TRUE,
          v  |-> [major |-> ma, minor |-> mi, patch |-> pa,
                  pre |-> pre.ident, build |-> build.ident]]

ParseBuild(ma, mi, pa, pre) ==
    IF ~pre.ok THEN pre
    ELSE ParseEnd(ma, mi, pa, pre, OptionalPart(pre.rest, "+", "Build"))

ParsePre(ma, mi, patch) ==
    IF ~patch.ok THEN patch
    ELSE ParseBuild(ma, mi, patch.value, OptionalPart(patch.rest, "-", "Pre"))

ParsePatch(ma, mi, d2) ==
    IF ~d2.ok THEN d2 ELSE ParsePre(ma, mi, NumericIdentifier(d2.rest, "Patch"))

ParseDot2(ma, minor) ==
    IF ~minor.ok THEN minor ELSE ParsePatch(ma, minor.value, Dot(minor.rest, "Minor"))

ParseMinor(ma, d1) ==
    IF ~d1.ok THEN d1 ELSE ParseDot2(ma, NumericIdentifier(d1.rest, "Minor"))

ParseDot1(major) ==
    IF ~major.ok THEN major ELSE ParseMinor(major.value, Dot(major.rest, "Major"))

ParseVersion(text) ==
    IF text = <<>> THEN SemErr("Empty", "", "")
    ELSE ParseDot1(NumericIdentifier(text, "Major"))

\* <semver::Version as Display>::fmt.
VersionText(v) ==
    NatText(v.major) \o <<".">> \o NatText(v.minor) \o <<".">> \o NatText(v.patch)
    \o (IF v.pre # <<>> THEN <<"-">> \o v.pre ELSE <<>>)
    \o (IF v.build # <<>> THEN <<"+">> \o v.build ELSE <<>>)

-----------------------------------------------------------------------------
(* Panic payloads.  A message is a sequence of items: fixed wording is one     *)
(* item per phrase, interpolated text is given character by character.         *)

UnwrapMsg(debug) == <<"called Result::unwrap() on an Err value: ">> \o debug

Panic(line, msg) == [kind |-> "panic", line |-> line, msg |-> msg]

\* <semver::parse::Position as Display>::fmt.
PositionText(pos) ==
    CASE pos = "Major" -> "major version number"
      [] pos = "Minor" -> "minor version number"
      [] pos = "Patch" -> "patch version number"
      [] pos = "Pre"   -> "pre-release identifier"
      [] pos = "Build" -> "build metadata"

\* <semver::Error as Display>::fmt.
SemverErrorText(e) ==
    IF e.kind = "Empty" THEN <<"empty string, expected a semver version">>
    ELSE IF e.kind = "UnexpectedEnd" THEN
        <<"unexpected end of input while parsing ", PositionText(e.pos)>>
    ELSE IF e.kind = "UnexpectedChar" THEN
        <<"unexpected character '", e.ch, "' while parsing ", PositionText(e.pos)>>
    ELSE IF e.kind = "UnexpectedCharAfter" THEN
        <<"unexpected character '", e.ch, "' after ", PositionText(e.pos)>>
    ELSE IF e.kind = "LeadingZero" THEN
        <<"invalid leading zero in ", PositionText(e.pos)>>
    ELSE <<"empty identifier segment in ", PositionText(e.pos)>>

\* <semver::Error as Debug>::fmt: Error("<Display of the error>").
SemverErrorDebug(e) == <<"Error(">> \o SemverErrorText(e) \o <<")">>

\* Whether text t occurs, character by character, inside message msg.
Carries(msg, t) ==
    \E i \in 0..(Len(msg) - Len(t)) : SubSeq(msg, i + 1, i + Len(t)) = t

-----------------------------------------------------------------------------
(* Literal texts *)

T_1_2_3 == <<"1", ".", "2", ".", "3">>

T_1_80_0 == <<"1", ".", "8", "0", ".", "0">>

T_0_1_0_rc_1 == <<"0", ".", "1", ".", "0", "-", "r", "c", ".", "1">>

T_1_81_0_nightly == <<"1", ".", "8", "1", ".", "0", "-", "n", "i", "g", "h", "t", "l", "y">>

T_1_0_0_b5 == <<"1", ".", "0", ".", "0", "+", "b", "5">>

T_abc == <<"a", "b", "c">>

T_1_2 == <<"1", ".", "2">>

T_01_2_3 == <<"0", "1", ".", "2", ".", "3">>

T_1_0_0_dash == <<"1", ".", "0", ".", "0", "-">>

T_1_0_0_pre01 == <<"1", ".", "0", ".", "0", "-", "0", "1">>

T_1_0_0_pre0a == <<"1", ".", "0", ".", "0", "-", "0", "a">>

T_1_0_0_a_dotdot_b == <<"1", ".", "0", ".", "0", "-", "a", ".", ".", "b">>

T_1_0_0_build_a_b == <<"1", ".", "0", ".", "0", "+", "a", "-", "b", ".", "0", "1">>

T_1_2_3_sp == <<"1", ".", "2", ".", "3", " ">>

T_abcd123 == <<"a", "b", "c", "d", "1", "2", "3">>

T_unknown == <<"u", "n", "k", "n", "o", "w", "n">>

T_x86_64_pc_linux == <<"x", "8", "6", "_", "6", "4", "-", "p", "c", "-", "l", "i", "n", "u", "x">>

T_wasm32 == <<"w", "a", "s", "m", "3", "2">>

T_release == <<"r", "e", "l", "e", "a", "s", "e">>

T_debug == <<"d", "e", "b", "u", "g">>

T_rustc_ == <<"r", "u", "s", "t", "c", "-">>

T_Ubuntu == <<"U", "b", "u", "n", "t", "u">>

T_22_04 == <<"2", "2", ".", "0", "4">>

T_64_bit == <<"6", "4", "-", "b", "i", "t">>

T_Windows == <<"W", "i", "n", "d", "o", "w", "s">>

T_my_os == <<"m", "y", " ", "o", "s">>

T_build_rs == <<"b", "u", "i", "l", "d", ".", "r", "s">>

-----------------------------------------------------------------------------
(* os_info::Info and its Display *)

\* <os_info::Info as Display>::fmt: type, version unless unknown, bitness.
OsText(o) ==
    o.os_type \o (IF o.version # <<>> THEN <<" ">> \o o.version ELSE <<>>)
    \o <<" ", "[">> \o o.bitness \o <<"]">>

\* Hosts the binary may run on (what os_info::get() returns there).
OsChoices ==
    { [os_type |-> T_Ubuntu,  version |-> T_22_04, bitness |-> T_64_bit],
      [os_type |-> T_Windows, version |-> <<>>,    bitness |-> T_64_bit] }

-----------------------------------------------------------------------------
(* Info::new and Display for Info *)

\* Variant: target and profile stored in each other's field.
Info_fields_swapped(r, o, p1, p2) ==
    IF ~p1.ok THEN Panic(90, UnwrapMsg(SemverErrorDebug(p1.err)))
    ELSE IF ~p2.ok THEN Panic(92, UnwrapMsg(SemverErrorDebug(p2.err)))
    ELSE [kind |-> "ok",
          info |-> [cargo_pkg_version |-> p1.v,
                    git_version       |-> r.git_version,
                    rustc_version     |-> p2.v,
                    os                |-> o,
                    target            |-> r.profile,
                    profile           |-> r.target]]

\* Variant: a malformed compiler version is replaced by 0.0.0 (unwrap_or).
Info_fields_lenient(r, o, p1, p2) ==
    IF ~p1.ok THEN Panic(90, UnwrapMsg(SemverErrorDebug(p1.err)))
    ELSE [kind |-> "ok",
          info |-> [cargo_pkg_version |-> p1.v,
                    git_version       |-> r.git_version,
                    rustc_version     |-> IF p2.ok THEN p2.v
                                          ELSE [major |-> 0, minor |-> 0, patch |-> 0,
                                                pre |-> <<>>, build |-> <<>>],
                    os                |-> o,
                    target            |-> r.target,
                    profile           |-> r.profile]]

\* Variant: the parse error is returned as a value (the ? operator) instead of
\* being unwrapped.
Info_fields_result(r, o, p1, p2) ==
    IF ~p1.ok THEN [kind |-> "err", err |-> p1.err]
    ELSE IF ~p2.ok THEN [kind |-> "err", err |-> p2.err]
    ELSE [kind |-> "ok",
          info |-> [cargo_pkg_version |-> p1.v,
                    git_version       |-> r.git_version,
                    rustc_version     |-> p2.v,
                    os                |-> o,
                    target            |-> r.target,
                    profile           |-> r.profile]]

\* Info::new: the struct fields are evaluated in source order, so the package
\* version is parsed (and unwrapped) before the compiler version.  p1 and p2
\* are the two parse() results.
Info_fields(r, o, p1, p2) ==
    IF ~p1.ok THEN Panic(90, UnwrapMsg(SemverErrorDebug(p1.err)))
    ELSE IF ~p2.ok THEN Panic(92, UnwrapMsg(SemverErrorDebug(p2.err)))
    ELSE [kind |-> "ok",
          info |-> [cargo_pkg_version |-> p1.v,
                    git_version       |-> r.git_version,
                    rustc_version     |-> p2.v,
                    os                |-> o,
                    target            |-> r.target,
                    profile           |-> r.profile]]

Info_new(r, o) ==
    Info_fields(r, o, ParseVersion(r.cargo_pkg_version), ParseVersion(r.rustc_version))

\* Variant: profile written before target.
fmt_swapped(i) ==
    VersionText(i.cargo_pkg_version) \o <<" ">> \o i.git_version \o <<" ">>
    \o i.profile \o <<" ">> \o i.target \o <<" ">>
    \o T_rustc_ \o VersionText(i.rustc_version) \o <<" ">> \o OsText(i.os)

\* <Info as Display>::fmt.
fmt(i) ==
    VersionText(i.cargo_pkg_version) \o <<" ">> \o i.git_version \o <<" ">>
    \o i.target \o <<" ">> \o i.profile \o <<" ">>
    \o T_rustc_ \o VersionText(i.rustc_version) \o <<" ">> \o OsText(i.os)

\* The public associated functions of impl Info that build an Info.
EntryPoints == {"new"}

\* Outcome of calling entry point e.
Call(e, r, o) == CASE e = "new" -> Info_new(r, o)

-----------------------------------------------------------------------------
(* Build scripts: build.rs of this crate, and build_script() called from the  *)
(* build.rs of the consumer crate.                                            *)

Crates == {"info", "consumer"}

RustcEnv(name, value) == [key |-> "cargo::rustc-env", name |-> name, value |-> value]

RerunIfChanged(path) == [key |-> "cargo::rerun-if-changed", name |-> "", value |-> path]

\* Debug of std::env::VarError, the Err of std::env::var.
VarErrorDebug(v) ==
    IF v.kind = "absent" THEN <<"NotPresent">> ELSE <<"NotUnicode(", "..", ")">>

\* Debug of rustc_version::Error.
RustcErrorDebug(rc) == <<rc.err, "(", "..", ")">>

\* Variant: an unset PROFILE falls back to the empty text (unwrap_or_default).
build_script_default_profile(e, rc) ==
    IF ~rc.ok THEN [out |-> <<>>, panic |-> Panic(151, UnwrapMsg(RustcErrorDebug(rc)))] ELSE
    IF e["TARGET"].kind # "ok"
    THEN [out |-> <<RustcEnv("INFO_RUSTC_VERSION", VersionText(rc.v))>>,
          panic |-> Panic(154, UnwrapMsg(VarErrorDebug(e["TARGET"])))] ELSE
    [out |-> <<RustcEnv("INFO_RUSTC_VERSION", VersionText(rc.v)),
               RustcEnv("INFO_TARGET", e["TARGET"].text),
               RustcEnv("INFO_PROFILE",
                        IF e["PROFILE"].kind = "ok" THEN e["PROFILE"].text ELSE <<>>),
               RerunIfChanged(T_build_rs)>>,
     panic |-> None]

\* Variant: the compiler version is emitted under the name build.rs uses.
build_script_wrong_name(e, rc) ==
    IF ~rc.ok THEN [out |-> <<>>, panic |-> Panic(151, UnwrapMsg(RustcErrorDebug(rc)))] ELSE
    IF e["TARGET"].kind # "ok"
    THEN [out |-> <<RustcEnv("RUSTC_VERSION", VersionText(rc.v))>>,
          panic |-> Panic(154, UnwrapMsg(VarErrorDebug(e["TARGET"])))] ELSE
    IF e["PROFILE"].kind # "ok"
    THEN [out |-> <<RustcEnv("RUSTC_VERSION", VersionText(rc.v)),
                    RustcEnv("INFO_TARGET", e["TARGET"].text)>>,
          panic |-> Panic(157, UnwrapMsg(VarErrorDebug(e["PROFILE"])))] ELSE
    [out |-> <<RustcEnv("RUSTC_VERSION", VersionText(rc.v)),
               RustcEnv("INFO_TARGET", e["TARGET"].text),
               RustcEnv("INFO_PROFILE", e["PROFILE"].text),
               RerunIfChanged(T_build_rs)>>,
     panic |-> None]

\* build_script(): every unwrap that fails ends the script there, after the
\* directives already printed.
build_script(e, rc) ==
    IF ~rc.ok THEN [out |-> <<>>, panic |-> Panic(151, UnwrapMsg(RustcErrorDebug(rc)))] ELSE
    LET o1 == <<RustcEnv("INFO_RUSTC_VERSION", VersionText(rc.v))>> IN
    IF e["TARGET"].kind # "ok"
    THEN [out |-> o1, panic |-> Panic(154, UnwrapMsg(VarErrorDebug(e["TARGET"])))] ELSE
    LET o2 == Append(o1, RustcEnv("INFO_TARGET", e["TARGET"].text)) IN
    IF e["PROFILE"].kind # "ok"
    THEN [out |-> o2, panic |-> Panic(157, UnwrapMsg(VarErrorDebug(e["PROFILE"])))] ELSE
    LET o3 == Append(o2, RustcEnv("INFO_PROFILE", e["PROFILE"].text)) IN
    [out |-> Append(o3, RerunIfChanged(T_build_rs)), panic |-> None]

\* build.rs main(): the build script of the info crate itself.
build_rs_main(rc) ==
    IF ~rc.ok THEN [out |-> <<>>, panic |-> Panic(4, UnwrapMsg(RustcErrorDebug(rc)))] ELSE
    [out |-> <<RustcEnv("RUSTC_VERSION", VersionText(rc.v)),
               RerunIfChanged(T_build_rs)>>,
     panic |-> None]

-----------------------------------------------------------------------------
(* raw_info!(): expanded while the consumer crate is compiled *)

\* The environment variable each env!() of raw_info! reads.
RawInfoEnv ==
    [cargo_pkg_version |-> "CARGO_PKG_VERSION",
     rustc_version     |-> "INFO_RUSTC_VERSION",
     target            |-> "INFO_TARGET",
     profile           |-> "INFO_PROFILE"]

\* Names defined while rustc compiles the consumer: what cargo sets itself plus
\* the rustc-env directives of the consumer's build script.
DefinedNames(o) ==
    {"CARGO_PKG_VERSION"} \cup
    {o[i].name : i \in {j \in 1..Len(o) : o[j].key = "cargo::rustc-env"}}

\* Value of a defined name; the last directive for a name wins.
ValueOf(o, pv, name) ==
    IF \E i \in 1..Len(o) : o[i].key = "cargo::rustc-env" /\ o[i].name = name
    THEN LET last == CHOOSE i \in 1..Len(o) :
                        /\ o[i].key = "cargo::rustc-env" /\ o[i].name = name
                        /\ \A j \in (i + 1)..Len(o) :
                              ~(o[j].key = "cargo::rustc-env" /\ o[j].name = name)
         IN o[last].value
    ELSE pv

\* Variant: git_version!() without the fallback argument's text.
raw_info_nofallback(o, pv, git) ==
    IF \E f \in DOMAIN RawInfoEnv : RawInfoEnv[f] \notin DefinedNames(o)
    THEN [kind |-> "compile_error"]
    ELSE [kind |-> "raw",
          raw  |-> [cargo_pkg_version |-> ValueOf(o, pv, RawInfoEnv.cargo_pkg_version),
                    git_version       |-> IF git.ok THEN git.text ELSE <<>>,
                    rustc_version     |-> ValueOf(o, pv, RawInfoEnv.rustc_version),
                    target            |-> ValueOf(o, pv, RawInfoEnv.target),
                    profile           |-> ValueOf(o, pv, RawInfoEnv.profile)]]

\* raw_info!(): env!() of an undefined name is a compile error; the revision is
\* the git lookup's text, or the fallback.
raw_info(o, pv, git) ==
    IF \E f \in DOMAIN RawInfoEnv : RawInfoEnv[f] \notin DefinedNames(o)
    THEN [kind |-> "compile_error"]
    ELSE [kind |-> "raw",
          raw  |-> [cargo_pkg_version |-> ValueOf(o, pv, RawInfoEnv.cargo_pkg_version),
                    git_version       |-> IF git.ok THEN git.text ELSE T_unknown,
                    rustc_version     |-> ValueOf(o, pv, RawInfoEnv.rustc_version),
                    target            |-> ValueOf(o, pv, RawInfoEnv.target),
                    profile           |-> ValueOf(o, pv, RawInfoEnv.profile)]]

-----------------------------------------------------------------------------
(* lazy_info_str!(): one static INFO_STR: LazyLock<String> per expansion site *)

\* The initialiser closure: || Info::new(raw_info!()).to_string(); n is the
\* outcome of Info::new.
lazy_text(n) ==
    IF n.kind = "ok" THEN [kind |-> "ok", text |-> fmt(n.info)] ELSE n

lazy_init(r, o) == lazy_text(Info_new(r, o))

\* LazyLock::new: nothing computed yet.
LazyLock_new == [once |-> "incomplete", value |-> None]

-----------------------------------------------------------------------------
(* Bounds and inputs *)

NThreads == 2

MaxAccesses == 2

MaxVerLen == 6

Threads == 1..NThreads

\* The places in the program where lazy_info_str!() is written.
Sites == {"site_a", "site_b"}

VerAlphabet == {"0", "1", ".", "a"}

RECURSIVE TextsOfLen(_, _)
TextsOfLen(A, n) ==
    IF n = 0 THEN {<<>>} ELSE {<<c>> \o t : c \in A, t \in TextsOfLen(A, n - 1)}

ShortTexts == UNION {TextsOfLen(VerAlphabet, n) : n \in 0..MaxVerLen}

ExampleVersions ==
    {T_1_2_3, T_1_80_0, T_0_1_0_rc_1, T_1_81_0_nightly, T_1_0_0_b5,
     T_1_0_0_pre0a, T_1_0_0_build_a_b,
     T_abc, <<>>, T_1_2, T_01_2_3, T_1_2_3_sp,
     T_1_0_0_dash, T_1_0_0_pre01, T_1_0_0_a_dotdot_b}

Revisions == {<<>>, T_abcd123, T_unknown}

Targets == {<<>>, T_x86_64_pc_linux, T_my_os}

Profiles == {<<>>, T_release}

RawInfo(v, g, r, t, p) ==
    [cargo_pkg_version |-> v, git_version |-> g, rustc_version |-> r,
     target |-> t, profile |-> p]

\* RawInfo values a caller may hand to Info::new (all fields are public text).
RawInputs ==
    {RawInfo(v, g, r, t, p) :
        v \in ExampleVersions, g \in Revisions, r \in ExampleVersions,
        t \in Targets, p \in Profiles}
    \cup {RawInfo(v, T_abcd123, T_1_80_0, T_x86_64_pc_linux, T_release) : v \in ShortTexts}
    \cup {RawInfo(T_1_2_3, T_abcd123, r, T_x86_64_pc_linux, T_release) : r \in ShortTexts}

\* RawInfo values compiled into the crates that expand lazy_info_str!.
LazyRaws ==
    {RawInfo(T_1_2_3, T_abcd123, T_1_80_0, T_x86_64_pc_linux, T_release),
     RawInfo(T_0_1_0_rc_1, T_unknown, T_1_80_0, T_x86_64_pc_linux, T_release),
     RawInfo(T_1_2_3, T_abcd123, T_abc, T_x86_64_pc_linux, T_release)}

EnvValues ==
    {[kind |-> "absent"], [kind |-> "not_unicode"],
     [kind |-> "ok", text |-> T_x86_64_pc_linux], [kind |-> "ok", text |-> T_release],
     [kind |-> "ok", text |-> <<>>]}

RustcOutcomes ==
    {[ok |-> FALSE, err |-> "CouldNotExecuteCommand"],
     [ok |-> TRUE, v |-> ParseVersion(T_1_80_0).v],
     [ok |-> TRUE, v |-> ParseVersion(T_1_81_0_nightly).v]}

PkgVersions == {T_1_2_3, T_0_1_0_rc_1}

GitOutcomes == {[ok |-> FALSE], [ok |-> TRUE, text |-> T_abcd123]}

-----------------------------------------------------------------------------
(* Initial states *)

NoBuild ==
    /\ env = [n \in {"TARGET", "PROFILE"} |-> [kind |-> "absent"]]
    /\ rustc = [c \in Crates |-> [ok |-> FALSE, err |-> "CouldNotExecuteCommand"]]
    /\ out = [c \in Crates |-> <<>>]
    /\ bpanic = [c \in Crates |-> None]
    /\ pkgver = T_1_2_3
    /\ gitrev = [ok |-> FALSE]

NoLazy ==
    /\ siteRaw = [s \in Sites |-> None]
    /\ cell = [s \in Sites |-> LazyLock_new]
    /\ pc = [t \in Threads |-> "idle"]
    /\ at = [t \in Threads |-> "site_a"]
    /\ got = [t \in Threads |-> None]
    /\ runs = [s \in Sites |-> 0]
    /\ touched = {}
    /\ naccess = [t \in Threads |-> 0]

\* A process whose threads use lazy_info_str! at several expansion sites.
Init ==
    /\ phase = "lazy"
    /\ NoBuild
    /\ raw = None /\ res = None /\ rendered = None
    /\ os \in OsChoices
    /\ siteRaw \in [Sites -> LazyRaws]
    /\ cell = [s \in Sites |-> LazyLock_new]
    /\ pc = [t \in Threads |-> "idle"]
    /\ at = [t \in Threads |-> "site_a"]
    /\ got = [t \in Threads |-> None]
    /\ runs = [s \in Sites |-> 0]
    /\ touched = {}
    /\ naccess = [t \in Threads |-> 0]

\* A caller about to validate a RawInfo of its own making.
InitInfo ==
    /\ phase = "runtime"
    /\ NoBuild /\ NoLazy
    /\ raw \in RawInputs
    /\ os \in OsChoices
    /\ res = None /\ rendered = None

\* cargo about to build the info crate and then the consumer crate.
InitBuild ==
    /\ phase = "cargo"
    /\ env \in [{"TARGET", "PROFILE"} -> EnvValues]
    /\ rustc \in [Crates -> RustcOutcomes]
    /\ out = [c \in Crates |-> <<>>]
    /\ bpanic = [c \in Crates |-> None]
    /\ pkgver \in PkgVersions
    /\ gitrev \in GitOutcomes
    /\ raw = None /\ res = None /\ rendered = None
    /\ os \in OsChoices
    /\ NoLazy

-----------------------------------------------------------------------------
(* Build and run pipeline *)

\* cargo runs build.rs of the info crate.
InfoBuildRs ==
    /\ phase = "cargo"
    /\ LET r == build_rs_main(rustc["info"]) IN
        /\ out' = [out EXCEPT !["info"] = r.out]
        /\ bpanic' = [bpanic EXCEPT !["info"] = r.panic]
        /\ phase' = IF r.panic = None THEN "info_built" ELSE "build_failed"
    /\ UNCHANGED <<env, rustc, pkgver, gitrev, infoVars, lazyVars>>

\* cargo runs the consumer's build.rs, whose main calls info::build_script().
BuildScript ==
    /\ phase = "info_built"
    /\ LET r == build_script(env, rustc["consumer"]) IN
        /\ out' = [out EXCEPT !["consumer"] = r.out]
        /\ bpanic' = [bpanic EXCEPT !["consumer"] = r.panic]
        /\ phase' = IF r.panic = None THEN "built" ELSE "build_failed"
    /\ UNCHANGED <<env, rustc, pkgver, gitrev, infoVars, lazyVars>>

\* rustc compiles the consumer crate, expanding raw_info!().
Compile ==
    /\ phase = "built"
    /\ LET r == raw_info(out["consumer"], pkgver, gitrev) IN
        /\ raw' = IF r.kind = "raw" THEN r.raw ELSE None
        /\ phase' = IF r.kind = "raw" THEN "runtime" ELSE "compile_failed"
    /\ UNCHANGED <<buildVars, os, res, rendered, lazyVars>>

\* The program calls Info::new(raw).
New ==
    /\ phase = "runtime"
    /\ \E e \in EntryPoints :
        /\ res' = Call(e, raw, os)
        /\ phase' = IF res'.kind = "ok" THEN "validated" ELSE "aborted"
    /\ UNCHANGED <<buildVars, raw, os, rendered, lazyVars>>

\* The program renders the Info (to_string / format!).
to_string ==
    /\ phase = "validated"
    /\ rendered' = Some(fmt(res.info))
    /\ phase' = "rendered"
    /\ UNCHANGED <<buildVars, raw, os, res, lazyVars>>

-----------------------------------------------------------------------------
(* Threads dereferencing INFO_STR: LazyLock::force over Once::call_once *)

\* A thread starts evaluating lazy_info_str!() at site s, dropping the reference
\* its previous access gave it.  Each action below is Begin meeting one state of
\* the Once.
Begin(t, s) ==
    /\ phase = "lazy"
    /\ pc[t] = "idle"
    /\ naccess[t] < MaxAccesses
    /\ naccess' = [naccess EXCEPT ![t] = @ + 1]
    /\ touched' = touched \cup {s}
    /\ at' = [at EXCEPT ![t] = s]

\* The cell is complete: the access returns the stored text.
AccessComplete(t, s) ==
    /\ Begin(t, s)
    /\ cell[s].once = "complete"
    /\ got' = [got EXCEPT ![t] = cell[s].value]
    /\ UNCHANGED <<phase, buildVars, infoVars, siteRaw, cell, pc, runs>>

\* The cell is incomplete: this thread claims it and starts the initialiser.
AccessFirst(t, s) ==
    /\ Begin(t, s)
    /\ cell[s].once = "incomplete"
    /\ cell' = [cell EXCEPT ![s].once = "running"]
    /\ runs' = [runs EXCEPT ![s] = @ + 1]
    /\ pc' = [pc EXCEPT ![t] = "init"]
    /\ got' = [got EXCEPT ![t] = None]
    /\ UNCHANGED <<phase, buildVars, infoVars, siteRaw>>

\* Variant: no mutual exclusion; a second thread runs the initialiser too.
AccessWait_racy(t, s) ==
    /\ Begin(t, s)
    /\ cell[s].once = "running"
    /\ runs' = [runs EXCEPT ![s] = @ + 1]
    /\ pc' = [pc EXCEPT ![t] = "init"]
    /\ got' = [got EXCEPT ![t] = None]
    /\ UNCHANGED <<phase, buildVars, infoVars, siteRaw, cell>>

\* Variant: no blocking; the access returns what the cell holds right now.
AccessWait_noblock(t, s) ==
    /\ Begin(t, s)
    /\ cell[s].once = "running"
    /\ got' = [got EXCEPT ![t] = cell[s].value]
    /\ UNCHANGED <<phase, buildVars, infoVars, siteRaw, cell, pc, runs>>

\* Another thread is running the initialiser: this thread blocks.
AccessWait(t, s) ==
    /\ Begin(t, s)
    /\ cell[s].once = "running"
    /\ pc' = [pc EXCEPT ![t] = "wait"]
    /\ got' = [got EXCEPT ![t] = None]
    /\ UNCHANGED <<phase, buildVars, infoVars, siteRaw, cell, runs>>

\* The cell is poisoned: the access panics and the thread unwinds.
AccessPoisoned(t, s) ==
    /\ Begin(t, s)
    /\ cell[s].once = "poisoned"
    /\ pc' = [pc EXCEPT ![t] = "dead"]
    /\ got' = [got EXCEPT ![t] = None]
    /\ UNCHANGED <<phase, buildVars, infoVars, siteRaw, cell, runs>>

\* The initialiser returns: the text is stored and the access returns it.
InitReturns(t) ==
    /\ phase = "lazy"
    /\ pc[t] = "init"
    /\ LET r == lazy_init(siteRaw[at[t]], os) IN
        /\ r.kind = "ok"
        /\ cell' = [cell EXCEPT ![at[t]] = [once |-> "complete", value |-> Some(r.text)]]
        /\ got' = [got EXCEPT ![t] = Some(r.text)]
    /\ pc' = [pc EXCEPT ![t] = "idle"]
    /\ UNCHANGED <<phase, buildVars, infoVars, siteRaw, at, runs, touched, naccess>>

\* Variant: a panicking initialiser leaves the cell incomplete, to be retried.
InitPanics_reset(t) ==
    /\ phase = "lazy"
    /\ pc[t] = "init"
    /\ lazy_init(siteRaw[at[t]], os).kind = "panic"
    /\ cell' = [cell EXCEPT ![at[t]].once = "incomplete"]
    /\ pc' = [pc EXCEPT ![t] = "dead"]
    /\ UNCHANGED <<phase, buildVars, infoVars, siteRaw, at, got, runs, touched, naccess>>

\* The initialiser panics: the Once is poisoned and the thread unwinds.
InitPanics(t) ==
    /\ phase = "lazy"
    /\ pc[t] = "init"
    /\ lazy_init(siteRaw[at[t]], os).kind = "panic"
    /\ cell' = [cell EXCEPT ![at[t]].once = "poisoned"]
    /\ pc' = [pc EXCEPT ![t] = "dead"]
    /\ UNCHANGED <<phase, buildVars, infoVars, siteRaw, at, got, runs, touched, naccess>>

\* A blocked thread wakes after the initialiser returned.
WakeComplete(t) ==
    /\ phase = "lazy"
    /\ pc[t] = "wait"
    /\ cell[at[t]].once = "complete"
    /\ got' = [got EXCEPT ![t] = cell[at[t]].value]
    /\ pc' = [pc EXCEPT ![t] = "idle"]
    /\ UNCHANGED <<phase, buildVars, infoVars, siteRaw, cell, at, runs, touched, naccess>>

\* A blocked thread wakes after the initialiser panicked: it panics too.
WakePoisoned(t) ==
    /\ phase = "lazy"
    /\ pc[t] = "wait"
    /\ cell[at[t]].once = "poisoned"
    /\ pc' = [pc EXCEPT ![t] = "dead"]
    /\ UNCHANGED <<phase, buildVars, infoVars, siteRaw, cell, at, got, runs, touched, naccess>>

-----------------------------------------------------------------------------
(* Specifications *)

Next ==
    \/ \E t \in Threads, s \in Sites : AccessComplete(t, s)
    \/ \E t \in Threads, s \in Sites : AccessFirst(t, s)
    \/ \E t \in Threads, s \in Sites : AccessWait(t, s)
    \/ \E t \in Threads, s \in Sites : AccessPoisoned(t, s)
    \/ \E t \in Threads : InitReturns(t)
    \/ \E t \in Threads : InitPanics(t)
    \/ \E t \in Threads : WakeComplete(t)
    \/ \E t \in Threads : WakePoisoned(t)

Spec == Init /\ [][Next]_vars

NextInfo == New \/ to_string

SpecInfo == InitInfo /\ [][NextInfo]_vars

NextBuild == InfoBuildRs \/ BuildScript \/ Compile \/ New \/ to_string

SpecBuild == InitBuild /\ [][NextBuild]_vars

-----------------------------------------------------------------------------
(* Vocabulary of the properties *)

\* The semantic-versioning grammar stated on its own, not through the parser:
\* core "+" build, core "-" pre, core = three numeric identifiers.
SplitAll(s, c) == SplitN(s, Len(s) + 1, c)

AllIn(s, cs) == \A i \in 1..Len(s) : s[i] \in cs

NumericOk(s) == s # <<>> /\ AllIn(s, Digits) /\ (Len(s) > 1 => s[1] # "0")

IdentOk(s) == s # <<>> /\ AllIn(s, Digits \cup Letters \cup {"-"})

CoreOk(s) ==
    /\ Len(SplitAll(s, ".")) = 3
    /\ \A i \in 1..3 : NumericOk(SplitAll(s, ".")[i])

PreOk(s) ==
    \A i \in 1..Len(SplitAll(s, ".")) :
        /\ IdentOk(SplitAll(s, ".")[i])
        /\ AllIn(SplitAll(s, ".")[i], Digits) => NumericOk(SplitAll(s, ".")[i])

BuildOk(s) == \A i \in 1..Len(SplitAll(s, ".")) : IdentOk(SplitAll(s, ".")[i])

BeforePlus(s) == SplitN(s, 2, "+")[1]

IsSemVer(s) ==
    /\ CoreOk(SplitN(BeforePlus(s), 2, "-")[1])
    /\ IndexOf(BeforePlus(s), "-") # 0 => PreOk(SplitN(BeforePlus(s), 2, "-")[2])
    /\ IndexOf(s, "+") # 0 => BuildOk(SplitN(s, 2, "+")[2])

Valid(r) == IsSemVer(r.cargo_pkg_version) /\ IsSemVer(r.rustc_version)

\* The first version field of r, in evaluation order, that is malformed.
FirstBad(r) ==
    IF ~IsSemVer(r.cargo_pkg_version) THEN "cargo_pkg_version" ELSE "rustc_version"

BadFields(r) == {f \in {"cargo_pkg_version", "rustc_version"} : ~IsSemVer(r[f])}

NewCalled == phase \in {"validated", "aborted", "rendered"}

RECURSIVE Join(_, _)
Join(parts, sep) ==
    IF Len(parts) = 0 THEN <<>>
    ELSE IF Len(parts) = 1 THEN parts[1]
    ELSE parts[1] \o sep \o Join(Tail(parts), sep)

NoSpace(s) == IndexOf(s, " ") = 0

RECURSIVE SumRuns(_)
SumRuns(S) ==
    IF S = {} THEN 0 ELSE LET s == CHOOSE x \in S : TRUE IN runs[s] + SumRuns(S \ {s})

ExampleRaw == RawInfo(T_1_2_3, T_abcd123, T_1_80_0, T_x86_64_pc_linux, T_release)

ExamplePrefix == <<"1", ".", "2", ".", "3", " ", "a", "b", "c", "d", "1", "2", "3", " ", "x", "8", "6", "_", "6", "4", "-", "p", "c", "-", "l", "i", "n", "u", "x", " ", "r", "e", "l", "e", "a", "s", "e", " ", "r", "u", "s", "t", "c", "-", "1", ".", "8", "0", ".", "0", " ">>

-----------------------------------------------------------------------------
(* Properties *)

\* C1 as stated: the rendering is computed exactly once per process, whatever
\* the number of accesses, callers and call sites: once any access has begun,
\* the initialiser has been started exactly one time in the whole process.
C1_OncePerProcess == touched # {} => SumRuns(Sites) = 1

\* C1 amended: the rendering is computed exactly once per expansion site of
\* lazy_info_str!: at every site, the initialiser has been started exactly one
\* time once any access has reached the site, and never before, under any
\* interleaving of the threads.
C1_OncePerSite == \A s \in Sites : runs[s] = IF s \in touched THEN 1 ELSE 0

C1_Witness ==
    \E t1, t2 \in Threads :
        /\ t1 # t2 /\ at[t1] = at[t2]
        /\ pc[t1] = "init" /\ pc[t2] = "wait"
        /\ runs[at[t1]] = 1

\* C2: the cell's value goes from empty to a text at most once (when the
\* running initialiser returns) and is never changed afterwards; an access
\* that has returned holds exactly the text stored in the completed cell, and
\* an access that has not returned holds nothing.
C2_CellWriteOnce ==
    /\ [][\A s \in Sites :
            /\ cell[s].value # None => cell'[s] = cell[s]
            /\ cell'[s].value # cell[s].value =>
                  /\ cell[s] = [once |-> "running", value |-> None]
                  /\ cell'[s].once = "complete" /\ cell'[s].value.kind = "some"]_vars
    /\ [](\A t \in Threads :
            /\ (pc[t] = "idle" /\ naccess[t] > 0) =>
                  /\ cell[at[t]].once = "complete"
                  /\ got[t].kind = "some" /\ got[t] = cell[at[t]].value
            /\ (pc[t] # "idle" \/ naccess[t] = 0) => got[t] = None)

C2_Witness ==
    \E t1, t2 \in Threads :
        /\ t1 # t2 /\ at[t1] = at[t2]
        /\ pc[t1] = "idle" /\ pc[t2] = "idle"
        /\ got[t1].kind = "some" /\ got[t1] = got[t2]
        /\ naccess[t1] = MaxAccesses

\* C10: at a site whose embedded version text is malformed the initialiser
\* panics: the cell never holds a text, the initialiser is never started a
\* second time, and every access that reached the site is either still inside
\* it or has panicked; none has returned.
C10_PoisonedForever ==
    \A s \in Sites :
        lazy_init(siteRaw[s], os).kind = "panic" =>
            /\ cell[s].value = None /\ cell[s].once # "complete"
            /\ runs[s] <= 1
            /\ \A t \in Threads :
                  (naccess[t] > 0 /\ at[t] = s) =>
                      pc[t] \in {"init", "wait", "dead"} /\ got[t] = None

C10_Witness ==
    \E s \in Sites :
        /\ cell[s].once = "poisoned" /\ runs[s] = 1
        /\ \A t \in Threads : pc[t] = "dead" /\ at[t] = s

C5_RenderSixParts ==
    rendered # None =>
        /\ rendered.v =
              Join(<<VersionText(res.info.cargo_pkg_version), res.info.git_version,
                     res.info.target, res.info.profile,
                     T_rustc_ \o VersionText(res.info.rustc_version),
                     OsText(res.info.os)>>, <<" ">>)
        /\ (NoSpace(raw.git_version) /\ NoSpace(raw.target) /\ NoSpace(raw.profile)) =>
              SplitN(rendered.v, 6, " ") =
                  <<raw.cargo_pkg_version, raw.git_version, raw.target, raw.profile,
                    T_rustc_ \o raw.rustc_version, OsText(os)>>
        /\ raw = ExampleRaw => IsPrefix(ExamplePrefix, rendered.v)

C5_Witness ==
    /\ rendered # None /\ raw = ExampleRaw
    /\ rendered.v = ExamplePrefix \o OsText(os)

\* C8 as stated: some entry point hands a caller holding a RawInfo with a
\* malformed version text the failure as an error value, and the caller is not
\* aborted.
C8_ResultEntryPoint ==
    ~Valid(raw) =>
        /\ \E e \in EntryPoints : Call(e, raw, os).kind = "err"
        /\ phase # "aborted"

\* C8 amended: Info::new is the only entry point and it aborts: for a RawInfo
\* with a malformed version text every entry point panics, no error value is
\* returned, and a caller that validated it has been aborted.
C8_OnlyAbortingEntryPoint ==
    ~Valid(raw) =>
        /\ \A e \in EntryPoints : Call(e, raw, os).kind = "panic"
        /\ NewCalled => (phase = "aborted" /\ res.kind = "panic" /\ rendered = None)

C8_Witness == phase = "aborted" /\ raw.cargo_pkg_version = <<>> /\ res.kind = "panic"

\* The consumer's build script has run (the info crate's own one succeeded).
ScriptRan == phase \notin {"cargo", "info_built"} /\ bpanic["info"] = None

\* C6 as stated: build_script aborts whenever TARGET or PROFILE is absent or
\* the compiler version cannot be determined, and the abort's message names
\* the missing variable.
C6_AbortNamesMissingValue ==
    ScriptRan =>
        /\ (~rustc["consumer"].ok \/ env["TARGET"].kind = "absent"
              \/ env["PROFILE"].kind = "absent") => bpanic["consumer"] # None
        /\ (rustc["consumer"].ok /\ env["TARGET"].kind = "absent") =>
              Carries(bpanic["consumer"].msg, <<"TARGET">>)
        /\ (rustc["consumer"].ok /\ env["TARGET"].kind = "ok"
              /\ env["PROFILE"].kind = "absent") =>
              Carries(bpanic["consumer"].msg, <<"PROFILE">>)

\* The first step of build_script that cannot get its value, or "none".
FailingStep ==
    IF ~rustc["consumer"].ok THEN "rustc"
    ELSE IF env["TARGET"].kind # "ok" THEN "TARGET"
    ELSE IF env["PROFILE"].kind # "ok" THEN "PROFILE" ELSE "none"

\* C6 amended: build_script panics, and the build stops before the consumer is
\* compiled, exactly when the compiler version cannot be determined or TARGET
\* or PROFILE cannot be read (absent, or not Unicode); the panic is the unwrap
\* of the first failing step and its message is that step's error (NotPresent
\* for an absent variable), which names no variable.
C6_AbortsOnMissingValue ==
    ScriptRan =>
        /\ bpanic["consumer"] # None <=> FailingStep # "none"
        /\ bpanic["consumer"] # None =>
              /\ phase = "build_failed" /\ raw = None
              /\ bpanic["consumer"].line =
                    CASE FailingStep = "rustc" -> 151
                      [] FailingStep = "TARGET" -> 154
                      [] FailingStep = "PROFILE" -> 157
              /\ \A n \in {"TARGET", "PROFILE"} : ~Carries(bpanic["consumer"].msg, <<n>>)
              /\ (FailingStep # "rustc" /\ env[FailingStep].kind = "absent") =>
                    bpanic["consumer"].msg = UnwrapMsg(<<"NotPresent">>)

C6_Witness ==
    /\ ScriptRan /\ phase = "build_failed"
    /\ rustc["consumer"].ok /\ env["TARGET"].kind = "ok" /\ env["PROFILE"].kind = "absent"
    /\ bpanic["consumer"].line = 157

\* The positions in the consumer script's output that set a compile-time constant.
EnvDirectives == {i \in 1..Len(out["consumer"]) : out["consumer"][i].key = "cargo::rustc-env"}

\* C7: whenever build_script completes without panicking it has printed
\* exactly three rustc-env directives, named as the three build-script
\* constants raw_info! reads, carrying the compiler version, TARGET and PROFILE
\* it read, and one rerun-if-changed=build.rs directive; nothing else.
C7_EmitsThreeConstants ==
    (ScriptRan /\ bpanic["consumer"] = None) =>
        /\ Cardinality(EnvDirectives) = 3
        /\ {out["consumer"][i].name : i \in EnvDirectives} =
              {RawInfoEnv[f] : f \in {"rustc_version", "target", "profile"}}
        /\ \A i \in EnvDirectives :
              out["consumer"][i].value =
                  CASE out["consumer"][i].name = "INFO_TARGET" -> env["TARGET"].text
                    [] out["consumer"][i].name = "INFO_PROFILE" -> env["PROFILE"].text
                    [] OTHER -> VersionText(rustc["consumer"].v)
        /\ \A i \in EnvDirectives :
              out["consumer"][i].name = "INFO_RUSTC_VERSION" =>
                  /\ ParseVersion(out["consumer"][i].value).ok
                  /\ ParseVersion(out["consumer"][i].value).v = rustc["consumer"].v
        /\ Len(out["consumer"]) = 4
        /\ \E i \in 1..4 : out["consumer"][i] = RerunIfChanged(T_build_rs)
        /\ phase # "compile_failed"

C7_Witness ==
    /\ phase = "runtime" /\ bpanic["consumer"] = None
    /\ raw.rustc_version = T_1_81_0_nightly /\ raw.target = T_x86_64_pc_linux
    /\ raw.profile = T_release

\* C9: expanding raw_info! never fails once the build script has run; when
\* the git lookup finds no revision the revision field is "unknown", and
\* validating and rendering that snapshot succeed, with "unknown" as the second
\* space-separated part of the line.
C9_UnknownRevision ==
    /\ phase # "compile_failed"
    /\ phase \in {"runtime", "validated", "aborted", "rendered"} => raw # None
    /\ (raw # None /\ ~gitrev.ok) => raw.git_version = T_unknown
    /\ (NewCalled /\ ~gitrev.ok) => res.kind = "ok"
    /\ (rendered # None /\ ~gitrev.ok) => SplitN(rendered.v, 3, " ")[2] = T_unknown

C9_Witness == rendered # None /\ ~gitrev.ok /\ pkgver = T_0_1_0_rc_1

====
